---- MODULE Spec2Model ----
(***************************************************************************)
(* Model of the aquatic UDP tracker core: the batching request worker of   *)
(* src/aquatic/src/lib/handlers.rs (run_request_worker and its three       *)
(* handlers, with the peer sampler extract_response_peers) and the cleaner *)
(* of src/aquatic_udp/src/lib/tasks.rs (clean_connections_and_torrents).   *)
(*                                                                         *)
(* The worker keeps ONE torrent map (handlers.rs:174, data.torrents) for   *)
(* sources of every address family; the cleaner's two retain passes        *)
(* (tasks.rs:31-41, 46-54) have the same body and are applied to that map. *)
(* Every lock() of the worker and of the cleaner is an acquisition of the  *)
(* one shard mutex.                                                        *)
(***************************************************************************)
EXTENDS Integers, Sequences, FiniteSets, TLC

VARIABLES
    closed,             \* every sender of the inbound channel was dropped
    nsent,              \* requests published so far by the socket workers
    now,                \* the clock read by Instant::now()
    pc,                 \* position of the request worker
    i,                  \* loop index of the collecting for loop
    recv_err,           \* the blocking recv() of this iteration returned Err
    connect_requests,   \* per-kind buffers of the worker
    announce_requests,
    scrape_requests,
    responses,          \* local response buffer of the worker
    batch,              \* the requests of this iteration, in the order received
    mutex,              \* holder of the shard mutex
    connections,        \* ConnectionTable: ConnectionKey -> Time
    issued,             \* every ConnectionKey ever inserted by a Connect
    torrents,           \* TorrentMap: InfoHash -> TorrentData
    list_type,          \* config.access_list.list_type
    access_list,        \* the loaded access list
    cpc,                \* position of the cleaner
    cnow,               \* the cleaner's `now` (tasks.rs:12)
    sample              \* state of the stand-alone peer-sampling harness

vars == <<closed, nsent, now, pc, i, recv_err, connect_requests,
          announce_requests, scrape_requests, responses, batch, mutex,
          connections, issued, torrents, list_type, access_list, cpc, cnow,
          sample>>

workerVars == <<pc, i, recv_err, connect_requests, announce_requests,
                scrape_requests, responses, batch>>
cleanerVars == <<cpc, cnow, access_list>>
envVars == <<closed, nsent, now>>

----------------------------------------------------------------------------
(* Bounds of the model *)

MaxRequests == 3        \* requests published on the inbound channel
MaxSwarmRequests == 5   \* the same, in the two-client specification
MaxAccessRequests == 2  \* the same, in the access-list specification
MaxHandlerRequests == 5 \* the same, in the worker-only specification
MaxTime == 1            \* the clock runs over 0..MaxTime
MaxPeers == 5           \* largest PeerMap of the sampling harness
MaxWanted == 5          \* largest target of the sampling harness

(* Configuration values *)

max_requests_per_iter == 2
max_response_peers == 1
peer_announce_interval == 120
connection_ttl == 2
peer_ttl == 2

----------------------------------------------------------------------------
(* Value domains *)

Ipv4Addrs == {"10.0.0.1"}
Ipv6Addrs == {"::1"}
SocketAddrs == {[ip |-> "10.0.0.1", port |-> 6881],
                [ip |-> "::1", port |-> 6881]}
ConnectionIds == {"c1", "c2"}           \* the values rng.gen() can draw
RequestConnectionIds == {"c1"}          \* the cookies clients present
InfoHashes == {"h1"}                    \* the torrents clients announce
PeerIds == {"p1"}
\* (event, bytes_left, peers_wanted) of an announce
AnnounceInputs == {[event |-> "Started", bytes_left |-> 1, peers_wanted |-> 2],
                   [event |-> "None", bytes_left |-> 0, peers_wanted |-> -1],
                   [event |-> "Stopped", bytes_left |-> 1, peers_wanted |-> 2]}
ScrapeLists == {<<"h1", "h2">>}
AccessListTypes == {"Allow", "Deny", "Ignore"}
AccessListFiles == {{"h1"}}
RawRng == {0, 1}

IsIpv4(ip) == ip \in Ipv4Addrs

Min(a, b) == IF a <= b THEN a ELSE b
Max(a, b) == IF a >= b THEN a ELSE b

ConnectRequests ==
    [kind : {"Connect"}, src : SocketAddrs]
AnnounceRequests ==
    {[kind |-> "Announce", src |-> s, connection_id |-> c, info_hash |-> h,
      peer_id |-> p, port |-> s.port, event |-> a.event,
      bytes_left |-> a.bytes_left, peers_wanted |-> a.peers_wanted] :
        s \in SocketAddrs, c \in RequestConnectionIds, h \in InfoHashes,
        p \in PeerIds, a \in AnnounceInputs}
ScrapeRequests ==
    [kind : {"Scrape"}, src : SocketAddrs, connection_id : RequestConnectionIds,
     info_hashes : ScrapeLists]

\* The two-client workload: a client of each address family, announcing to
\* one torrent.
SwarmAnnounceInputs ==
    {[event |-> "Started", bytes_left |-> 1, peers_wanted |-> 2],
     [event |-> "None", bytes_left |-> 0, peers_wanted |-> -1]}
SwarmRequests ==
    ConnectRequests \cup
    {r \in AnnounceRequests :
        [event |-> r.event, bytes_left |-> r.bytes_left,
         peers_wanted |-> r.peers_wanted] \in SwarmAnnounceInputs}

\* A request as published: the client's fields plus its transaction id.
WithTid(r, tid) ==
    [f \in DOMAIN r \cup {"transaction_id"} |->
        IF f = "transaction_id" THEN tid ELSE r[f]]

InvalidMessage == "Connection invalid or expired"

----------------------------------------------------------------------------
(* Connections *)

ConnectionKey(connection_id, src) ==
    [connection_id |-> connection_id, socket_addr |-> src]

\* HashMap::insert
MapInsert(m, k, v) ==
    [x \in DOMAIN m \cup {k} |-> IF x = k THEN v ELSE m[x]]

\* HashMap::retain on a map keyed by a set
MapRestrict(m, keep) == [x \in keep |-> m[x]]

EmptyMap == [x \in {} |-> 0]

ConnectResponse(connection_id, request) ==
    [kind |-> "Connect", connection_id |-> connection_id,
     transaction_id |-> request.transaction_id]

\* variant: the error does not carry the transaction id of the request
ErrorResponseNoTransactionId(request) ==
    [kind |-> "Error", transaction_id |-> 0, message |-> InvalidMessage]

\* handlers.rs:158-161 and :243-246
ErrorResponse(request) ==
    [kind |-> "Error", transaction_id |-> request.transaction_id,
     message |-> InvalidMessage]

\* handle_connect_requests: the closure applied to the requests in order,
\* ids[j] being the rng.gen() drawn for the j-th request.
RECURSIVE ConnectFold(_, _, _, _, _)
ConnectFold(requests, ids, time, j, st) ==
    IF j > Len(requests) THEN st
    ELSE LET request == requests[j]
             key == ConnectionKey(ids[j], request.src)
         IN ConnectFold(requests, ids, time, j + 1,
                [connections |-> MapInsert(st.connections, key, time),
                 issued |-> st.issued \cup {key},
                 responses |-> Append(st.responses,
                     <<ConnectResponse(ids[j], request), request.src>>)])

----------------------------------------------------------------------------
(* Peers and the peer map (an IndexMap: entries in insertion order) *)

\* Peer::from_announce_and_ip: the status of the announcing peer
PeerStatusOf(request) ==
    IF request.event = "Stopped" THEN "Stopped"
    ELSE IF request.event = "Completed" \/ request.bytes_left = 0
         THEN "Seeding"
         ELSE "Leeching"

from_announce_and_ip(request, ip, time) ==
    [ip_address |-> ip, port |-> request.port,
     status |-> PeerStatusOf(request), valid_until |-> time]

to_response_peer(peer) == [ip_address |-> peer.ip_address, port |-> peer.port]

PeerMapKey(ip, peer_id) == [ip |-> ip, peer_id |-> peer_id]

IndexOfKey(peer_map, key) ==
    IF \E j \in 1..Len(peer_map) : peer_map[j].key = key
    THEN CHOOSE j \in 1..Len(peer_map) : peer_map[j].key = key
    ELSE 0

\* IndexMap::insert: an existing key keeps its position
PeerMapInsert(peer_map, key, peer) ==
    LET j == IndexOfKey(peer_map, key)
    IN IF j = 0 THEN Append(peer_map, [key |-> key, value |-> peer])
       ELSE [peer_map EXCEPT ![j] = [key |-> key, value |-> peer]]

\* variant: the entry stays in the map
PeerMapRemoveNothing(peer_map, key) == peer_map

\* IndexMap::remove is swap_remove: the last entry takes the freed position
PeerMapRemove(peer_map, key) ==
    LET j == IndexOfKey(peer_map, key)
        n == Len(peer_map)
    IN IF j = 0 THEN peer_map
       ELSE IF j = n THEN SubSeq(peer_map, 1, n - 1)
       ELSE SubSeq([peer_map EXCEPT ![j] = peer_map[n]], 1, n - 1)

\* the status of the entry at key, "None" when there is none
StatusAt(peer_map, key) ==
    LET j == IndexOfKey(peer_map, key)
    IN IF j = 0 THEN "None" ELSE peer_map[j].value.status

CountStatus(peer_map, status) ==
    Cardinality({j \in 1..Len(peer_map) : peer_map[j].value.status = status})

DefaultTorrentData == [peers |-> <<>>, num_seeders |-> 0, num_leechers |-> 0]

----------------------------------------------------------------------------
(* Peer sampling *)

\* rng.gen_range(low, high) for the raw draw `raw`; an empty range panics
RangeIsEmpty(low, high) == high <= low
gen_range(low, high, raw) ==
    IF RangeIsEmpty(low, high) THEN low ELSE low + (raw % (high - low))

FirstHalfHigh(peer_map_len, max_num_peers_to_take) ==
    ((peer_map_len \div 2) + (peer_map_len % 2)) - (max_num_peers_to_take \div 2)
SecondHalfLow(peer_map_len) == peer_map_len \div 2
\* variant: the second range reaches one offset further
SecondHalfHighPlusOne(peer_map_len, max_num_peers_to_take) ==
    (peer_map_len - (max_num_peers_to_take \div 2)) + 1

SecondHalfHigh(peer_map_len, max_num_peers_to_take) ==
    peer_map_len - (max_num_peers_to_take \div 2)

\* the positions (0-based) visited by the two loops, in order
RECURSIVE RangeSeq(_, _)
RangeSeq(from, to) ==
    IF from >= to THEN <<>> ELSE <<from>> \o RangeSeq(from + 1, to)

WindowPositions(offset_first_half, offset_second_half, max_num_peers_to_take) ==
    LET half_num_to_take == max_num_peers_to_take \div 2
        end_first_half == offset_first_half + half_num_to_take
        end_second_half == offset_second_half + half_num_to_take
                              + (max_num_peers_to_take % 2)
    IN RangeSeq(offset_first_half, end_first_half)
         \o RangeSeq(offset_second_half, end_second_half)

\* get_index(i): positions outside the map yield nothing
RECURSIVE PeersAt(_, _)
PeersAt(peer_map, positions) ==
    IF positions = <<>> THEN <<>>
    ELSE LET p == Head(positions)
             rest == PeersAt(peer_map, Tail(positions))
         IN IF p >= 0 /\ p < Len(peer_map)
            THEN <<to_response_peer(peer_map[p + 1].value)>> \o rest
            ELSE rest

\* variant: the entry inserted last is left out
AllPeersExceptLast(peer_map) ==
    [j \in 1..(Len(peer_map) - 1) |-> to_response_peer(peer_map[j].value)]

\* peer_map.values().map(Peer::to_response_peer).collect()
AllPeers(peer_map) ==
    [j \in 1..Len(peer_map) |-> to_response_peer(peer_map[j].value)]

SamplePositions(peer_map_len, max_num_peers_to_take, raw1, raw2) ==
    IF peer_map_len <= max_num_peers_to_take
    THEN RangeSeq(0, peer_map_len)
    ELSE WindowPositions(
            gen_range(0, FirstHalfHigh(peer_map_len, max_num_peers_to_take), raw1),
            gen_range(SecondHalfLow(peer_map_len),
                      SecondHalfHigh(peer_map_len, max_num_peers_to_take), raw2),
            max_num_peers_to_take)

\* gen_range panics on an empty range (the sampling branch only)
SamplePanics(peer_map_len, max_num_peers_to_take) ==
    /\ peer_map_len > max_num_peers_to_take
    /\ \/ RangeIsEmpty(0, FirstHalfHigh(peer_map_len, max_num_peers_to_take))
       \/ RangeIsEmpty(SecondHalfLow(peer_map_len),
                       SecondHalfHigh(peer_map_len, max_num_peers_to_take))

extract_response_peers(raw1, raw2, peer_map, max_num_peers_to_take) ==
    IF Len(peer_map) <= max_num_peers_to_take
    THEN AllPeers(peer_map)
    ELSE PeersAt(peer_map,
            SamplePositions(Len(peer_map), max_num_peers_to_take, raw1, raw2))

----------------------------------------------------------------------------
(* Announce *)

AnnounceResponse(request, torrent_data, response_peers) ==
    [kind |-> "Announce", transaction_id |-> request.transaction_id,
     announce_interval |-> peer_announce_interval,
     leechers |-> torrent_data.num_leechers,
     seeders |-> torrent_data.num_seeders,
     peers |-> response_peers]

\* variant: the configured cap is not applied
MaxNumPeersToTakeUncapped(request) == Max(request.peers_wanted, 0)

\* handlers.rs:186-187
MaxNumPeersToTake(request) ==
    Min(Max(request.peers_wanted, 0), max_response_peers)

\* variant: the id alone is looked up, whatever address it was issued to
ConnectionValidAnyAddress(conns, request) ==
    \E key \in DOMAIN conns : key.connection_id = request.connection_id

\* the key check of handlers.rs:157 and :242
ConnectionValid(conns, request) ==
    ConnectionKey(request.connection_id, request.src) \in DOMAIN conns

\* variant: the status of the replaced or removed entry is not discounted
AnnounceTorrentDataNoDecrement(torrent_data, request, time) ==
    LET peer_key == PeerMapKey(request.src.ip, request.peer_id)
        peer == from_announce_and_ip(request, request.src.ip, time)
        peers == IF peer.status = "Stopped"
                 THEN PeerMapRemove(torrent_data.peers, peer_key)
                 ELSE PeerMapInsert(torrent_data.peers, peer_key, peer)
    IN [peers |-> peers,
        num_seeders |-> torrent_data.num_seeders
                          + (IF peer.status = "Seeding" THEN 1 ELSE 0),
        num_leechers |-> torrent_data.num_leechers
                          + (IF peer.status = "Leeching" THEN 1 ELSE 0)]

\* the torrent data after the peer map mutation and the counter updates
AnnounceTorrentData(torrent_data, request, time) ==
    LET peer_key == PeerMapKey(request.src.ip, request.peer_id)
        peer == from_announce_and_ip(request, request.src.ip, time)
        peer_status == peer.status
        opt_removed_peer_status == StatusAt(torrent_data.peers, peer_key)
        peers == IF peer_status = "Stopped"
                 THEN PeerMapRemove(torrent_data.peers, peer_key)
                 ELSE PeerMapInsert(torrent_data.peers, peer_key, peer)
        inc_l == IF peer_status = "Leeching" THEN 1 ELSE 0
        inc_s == IF peer_status = "Seeding" THEN 1 ELSE 0
        dec_l == IF opt_removed_peer_status = "Leeching" THEN 1 ELSE 0
        dec_s == IF opt_removed_peer_status = "Seeding" THEN 1 ELSE 0
    IN [peers |-> peers,
        num_seeders |-> (torrent_data.num_seeders + inc_s) - dec_s,
        num_leechers |-> (torrent_data.num_leechers + inc_l) - dec_l]

\* variant: the TorrentData is located or created before the key is checked
AnnounceOneEntryFirst(conns, st, request, time, raw) ==
    LET old == IF request.info_hash \in DOMAIN st.torrents
               THEN st.torrents[request.info_hash]
               ELSE DefaultTorrentData
    IN IF ~ConnectionValid(conns, request)
       THEN [torrents |-> MapInsert(st.torrents, request.info_hash, old),
             responses |-> Append(st.responses,
                                  <<ErrorResponse(request), request.src>>)]
       ELSE LET torrent_data == AnnounceTorrentData(old, request, time)
                response_peers == extract_response_peers(raw[1], raw[2],
                                      torrent_data.peers,
                                      MaxNumPeersToTake(request))
            IN [torrents |-> MapInsert(st.torrents, request.info_hash,
                                       torrent_data),
                responses |-> Append(st.responses,
                    <<AnnounceResponse(request, torrent_data, response_peers),
                      request.src>>)]

\* the closure of handle_announce_requests for one request; st holds the
\* torrent map and the response buffer, raw the two draws of the rng
AnnounceOne(conns, st, request, time, raw) ==
    IF ~ConnectionValid(conns, request)
    THEN [torrents |-> st.torrents,
          responses |-> Append(st.responses,
                               <<ErrorResponse(request), request.src>>)]
    ELSE LET old == IF request.info_hash \in DOMAIN st.torrents
                    THEN st.torrents[request.info_hash]
                    ELSE DefaultTorrentData
             torrent_data == AnnounceTorrentData(old, request, time)
             response_peers == extract_response_peers(raw[1], raw[2],
                                   torrent_data.peers,
                                   MaxNumPeersToTake(request))
         IN [torrents |-> MapInsert(st.torrents, request.info_hash, torrent_data),
             responses |-> Append(st.responses,
                 <<AnnounceResponse(request, torrent_data, response_peers),
                   request.src>>)]

----------------------------------------------------------------------------
(* Scrape *)

create_torrent_scrape_statistics(seeders, leechers) ==
    [seeders |-> seeders, completed |-> 0, leechers |-> leechers]

\* variant: a requested info_hash that has no TorrentData gets no record
ScrapeStatsResidentOnly(tor, info_hashes) ==
    LET F[j \in 0..Len(info_hashes)] ==
            IF j = 0 THEN <<>>
            ELSE IF info_hashes[j] \in DOMAIN tor
                 THEN Append(F[j - 1],
                        create_torrent_scrape_statistics(
                            tor[info_hashes[j]].num_seeders,
                            tor[info_hashes[j]].num_leechers))
                 ELSE F[j - 1]
    IN F[Len(info_hashes)]

\* the loop of handlers.rs:251-264 over request.info_hashes
ScrapeStats(tor, info_hashes) ==
    [j \in 1..Len(info_hashes) |->
        IF info_hashes[j] \in DOMAIN tor
        THEN create_torrent_scrape_statistics(tor[info_hashes[j]].num_seeders,
                                              tor[info_hashes[j]].num_leechers)
        ELSE create_torrent_scrape_statistics(0, 0)]

ScrapeResponse(request, stats) ==
    [kind |-> "Scrape", transaction_id |-> request.transaction_id,
     torrent_stats |-> stats]

ScrapeOne(conns, tor, request) ==
    IF ~ConnectionValid(conns, request)
    THEN <<ErrorResponse(request), request.src>>
    ELSE <<ScrapeResponse(request, ScrapeStats(tor, request.info_hashes)),
           request.src>>

----------------------------------------------------------------------------
(* Cleaner *)

\* connections.retain(|_, v| v.0 > now)
CleanConnections(conns, time) ==
    MapRestrict(conns, {k \in DOMAIN conns : conns[k] > time})

\* AccessList::allows
Allows(type, list, info_hash) ==
    CASE type = "Allow" -> info_hash \in list
      [] type = "Deny" -> info_hash \notin list
      [] OTHER -> TRUE

PeerKept(entry, time) == entry.value.valid_until > time

\* clean_torrent_and_peers: the torrent after peers.retain
clean_torrent_and_peers(time, torrent) ==
    LET F[j \in 0..Len(torrent.peers)] ==
            IF j = 0 THEN [peers |-> <<>>,
                           num_seeders |-> torrent.num_seeders,
                           num_leechers |-> torrent.num_leechers]
            ELSE LET e == torrent.peers[j]
                     acc == F[j - 1]
                 IN IF PeerKept(e, time)
                    THEN [acc EXCEPT !.peers = Append(@, e)]
                    ELSE IF e.value.status = "Seeding"
                         THEN [acc EXCEPT !.num_seeders = @ - 1]
                    ELSE IF e.value.status = "Leeching"
                         THEN [acc EXCEPT !.num_leechers = @ - 1]
                    ELSE acc
    IN F[Len(torrent.peers)]

\* torrents.retain(...) of either access list branch
CleanTorrents(tor, type, list, time) ==
    LET keep == {h \in DOMAIN tor :
                    /\ Allows(type, list, h)
                    /\ clean_torrent_and_peers(time, tor[h]).peers # <<>>}
    IN [h \in keep |-> clean_torrent_and_peers(time, tor[h])]

----------------------------------------------------------------------------
(* Initial state *)

SampleIdle == [pc |-> "off"]

Init ==
    /\ closed = FALSE
    /\ nsent = 0
    /\ now = 0
    /\ pc = "recv"
    /\ i = 0
    /\ recv_err = FALSE
    /\ connect_requests = <<>>
    /\ announce_requests = <<>>
    /\ scrape_requests = <<>>
    /\ responses = <<>>
    /\ batch = <<>>
    /\ mutex = "free"
    /\ connections = EmptyMap
    /\ issued = {}
    /\ torrents = EmptyMap
    /\ list_type \in AccessListTypes
    /\ access_list = {}
    /\ cpc = "idle"
    /\ cnow = 0
    /\ sample = SampleIdle

----------------------------------------------------------------------------
(* Environment: socket workers and the clock *)

\* The inbound channel is a rendezvous channel (capacity 0): a request passes
\* from a socket worker to the request worker in one step, so the requests a
\* socket worker can publish are the inputs of the worker's receive steps.
Requests == ConnectRequests \cup AnnounceRequests \cup ScrapeRequests

Published(requests) == {WithTid(r, nsent + 1) : r \in requests}

SenderReady(max) == ~closed /\ nsent < max

\* The last sender is dropped.  The worker can tell a closed channel from a
\* silent one only in the blocking recv() (recv_timeout fails alike for both),
\* so the closing is taken when the worker is about to call recv().
CloseChannel ==
    /\ ~closed
    /\ pc = "recv" /\ i = 0
    /\ closed' = TRUE
    /\ UNCHANGED <<nsent, now, workerVars, mutex, connections, issued,
                   torrents, list_type, cleanerVars, sample>>

Tick ==
    /\ now < MaxTime
    /\ now' = now + 1
    /\ UNCHANGED <<closed, nsent, workerVars, mutex, connections, issued,
                   torrents, list_type, cleanerVars, sample>>

----------------------------------------------------------------------------
(* run_request_worker *)

\* variant: the request is put in front of the buffered ones
PushFront(buffer, request) == <<request>> \o buffer

\* the match of handlers.rs:64-74
Push(buffer, request) == Append(buffer, request)

\* variant: the Announces are handled before the Connects
HandlerOrderAnnounceFirst == <<"announce", "connect", "scrape">>

\* the three handlers in the order of handlers.rs:81-99
HandlerOrder == <<"connect", "announce", "scrape">>

StageIndex(stage) == CHOOSE k \in 1..3 : HandlerOrder[k] = stage

BufferOf(stage, c, a, s) ==
    CASE stage = "connect" -> c
      [] stage = "announce" -> a
      [] OTHER -> s

\* the k-th and later handlers: the first one that has a request to handle
\* (a handler whose buffer is empty does nothing), then drop(data)
RECURSIVE StageFrom(_, _, _, _)
StageFrom(k, c, a, s) ==
    IF k > 3 THEN "drop"
    ELSE IF BufferOf(HandlerOrder[k], c, a, s) # <<>> THEN HandlerOrder[k]
    ELSE StageFrom(k + 1, c, a, s)

\* where the for loop of handlers.rs:43 goes once its index is j
LoopPc(j) == IF j < max_requests_per_iter THEN "recv" ELSE "lock"

Collect(request, j) ==
    /\ connect_requests' = IF request.kind = "Connect"
                           THEN Push(connect_requests, request)
                           ELSE connect_requests
    /\ announce_requests' = IF request.kind = "Announce"
                            THEN Push(announce_requests, request)
                            ELSE announce_requests
    /\ scrape_requests' = IF request.kind = "Scrape"
                          THEN Push(scrape_requests, request)
                          ELSE scrape_requests
    /\ batch' = Append(batch, request)
    /\ i' = j
    /\ pc' = LoopPc(j)

\* i == 0: request_receiver.recv() returns a request
RecvFirstOf(requests, max) ==
    /\ pc = "recv" /\ i = 0
    /\ SenderReady(max)
    /\ \E request \in Published(requests) : Collect(request, 1)
    /\ nsent' = nsent + 1
    /\ UNCHANGED <<closed, now, recv_err, responses, mutex,
                   connections, issued, torrents, list_type, cleanerVars,
                   sample>>

RecvFirst == RecvFirstOf(Requests, MaxRequests)

SwarmRecvFirst == RecvFirstOf(SwarmRequests, MaxSwarmRequests)

AccessRecvFirst == RecvFirstOf(Requests, MaxAccessRequests)

HandlerRecvFirst == RecvFirstOf(SwarmRequests, MaxHandlerRequests)

\* i == 0: request_receiver.recv() returns Err: break out of the for loop
RecvFirstErr ==
    /\ pc = "recv" /\ i = 0
    /\ closed
    /\ recv_err' = TRUE
    /\ pc' = "lock"
    /\ UNCHANGED <<envVars, i, connect_requests, announce_requests,
                   scrape_requests, responses, batch, mutex, connections,
                   issued, torrents, list_type, cleanerVars, sample>>

\* i > 0: request_receiver.recv_timeout(timeout) returns a request
RecvTimeoutOkOf(requests, max) ==
    /\ pc = "recv" /\ i > 0
    /\ SenderReady(max)
    /\ \E request \in Published(requests) : Collect(request, i + 1)
    /\ nsent' = nsent + 1
    /\ UNCHANGED <<closed, now, recv_err, responses, mutex,
                   connections, issued, torrents, list_type, cleanerVars,
                   sample>>

RecvTimeoutOk == RecvTimeoutOkOf(Requests, MaxRequests)

SwarmRecvTimeoutOk == RecvTimeoutOkOf(SwarmRequests, MaxSwarmRequests)

AccessRecvTimeoutOk == RecvTimeoutOkOf(Requests, MaxAccessRequests)

HandlerRecvTimeoutOk == RecvTimeoutOkOf(SwarmRequests, MaxHandlerRequests)

\* variant: the guard is taken and the worker goes on collecting
LockedKeepsCollecting ==
    /\ mutex' = "worker"
    /\ pc' = "recv"

\* the handlers start once the guard is held
Locked ==
    /\ mutex' = "worker"
    /\ pc' = StageFrom(1, connect_requests, announce_requests, scrape_requests)

\* i > 0: recv_timeout returns Err and try_lock() succeeds
RecvTimeoutTryLock ==
    /\ pc = "recv" /\ i > 0
    /\ mutex = "free"
    /\ Locked
    /\ UNCHANGED <<envVars, i, recv_err, connect_requests, announce_requests,
                   scrape_requests, responses, batch, connections, issued,
                   torrents, list_type, cleanerVars, sample>>

\* i > 0: recv_timeout returns Err and try_lock() fails: continue
RecvTimeoutContended ==
    /\ pc = "recv" /\ i > 0
    /\ mutex # "free"
    /\ i' = i + 1
    /\ pc' = LoopPc(i + 1)
    /\ UNCHANGED <<envVars, recv_err, connect_requests, announce_requests,
                   scrape_requests, responses, batch, mutex, connections,
                   issued, torrents, list_type, cleanerVars, sample>>

\* opt_data.unwrap_or_else(|| state.handler_data.lock())
LockData ==
    /\ pc = "lock"
    /\ mutex = "free"
    /\ Locked
    /\ UNCHANGED <<envVars, i, recv_err, connect_requests, announce_requests,
                   scrape_requests, responses, batch, connections, issued,
                   torrents, list_type, cleanerVars, sample>>

\* all the buffered Connects, with the one `now` of handlers.rs:119
handle_connect_requests ==
    /\ pc = "connect"
    /\ \E ids \in [1..Len(connect_requests) -> ConnectionIds] :
          LET st == ConnectFold(connect_requests, ids, now, 1,
                        [connections |-> connections, issued |-> issued,
                         responses |-> responses])
          IN /\ connections' = st.connections
             /\ issued' = st.issued
             /\ responses' = st.responses
    /\ connect_requests' = <<>>
    /\ pc' = StageFrom(StageIndex("connect") + 1, <<>>, announce_requests,
                       scrape_requests)
    /\ UNCHANGED <<envVars, i, recv_err, announce_requests, scrape_requests,
                   batch, mutex, torrents, list_type, cleanerVars, sample>>

\* the closure of handlers.rs:151-224 for the next drained Announce
handle_announce_requests ==
    /\ pc = "announce"
    /\ announce_requests # <<>>
    /\ \E raw \in RawRng \X RawRng :
          LET st == AnnounceOne(connections,
                        [torrents |-> torrents, responses |-> responses],
                        Head(announce_requests), now, raw)
          IN /\ torrents' = st.torrents
             /\ responses' = st.responses
    /\ announce_requests' = Tail(announce_requests)
    /\ pc' = IF Tail(announce_requests) # <<>> THEN pc
             ELSE StageFrom(StageIndex("announce") + 1, connect_requests,
                            <<>>, scrape_requests)
    /\ UNCHANGED <<envVars, i, recv_err, connect_requests, scrape_requests,
                   batch, mutex, connections, issued, list_type, cleanerVars,
                   sample>>

\* the closure of handlers.rs:236-272 for the next drained Scrape
handle_scrape_requests ==
    /\ pc = "scrape"
    /\ scrape_requests # <<>>
    /\ responses' = Append(responses,
                        ScrapeOne(connections, torrents, Head(scrape_requests)))
    /\ scrape_requests' = Tail(scrape_requests)
    /\ pc' = IF Tail(scrape_requests) # <<>> THEN pc
             ELSE StageFrom(StageIndex("scrape") + 1, connect_requests,
                            announce_requests, <<>>)
    /\ UNCHANGED <<envVars, i, recv_err, connect_requests, announce_requests,
                   batch, mutex, connections, issued, torrents, list_type,
                   cleanerVars, sample>>

\* the start of the next iteration of the outer loop
NextIteration ==
    /\ pc' = "recv"
    /\ i' = 0
    /\ batch' = <<>>

\* ::std::mem::drop(data)
DropData ==
    /\ pc = "drop"
    /\ mutex' = "free"
    /\ IF responses = <<>>
       THEN NextIteration
       ELSE pc' = "send" /\ UNCHANGED <<i, batch>>
    /\ UNCHANGED <<envVars, recv_err, connect_requests, announce_requests,
                   scrape_requests, responses, connections, issued, torrents,
                   list_type, cleanerVars, sample>>

\* response_sender.send(r) for the next drained response
SendResponse ==
    /\ pc = "send"
    /\ responses # <<>>
    /\ responses' = Tail(responses)
    /\ IF Tail(responses) = <<>>
       THEN NextIteration
       ELSE UNCHANGED <<pc, i, batch>>
    /\ UNCHANGED <<envVars, recv_err, connect_requests, announce_requests,
                   scrape_requests, mutex, connections, issued, torrents,
                   list_type, cleanerVars, sample>>

----------------------------------------------------------------------------
(* clean_connections_and_torrents *)

\* let now = Instant::now()
CleanerStart ==
    /\ cpc = "idle"
    /\ cnow' = now
    /\ cpc' = "lock_connections"
    /\ UNCHANGED <<envVars, workerVars, mutex, connections, issued, torrents,
                   list_type, access_list, sample>>

\* state.connections.lock()
CleanerLockConnections ==
    /\ cpc = "lock_connections"
    /\ mutex = "free"
    /\ mutex' = "cleaner"
    /\ cpc' = "connections"
    /\ UNCHANGED <<envVars, workerVars, connections, issued, torrents,
                   list_type, cnow, access_list, sample>>

\* retain, shrink_to_fit, and the guard dropped at the end of the block
CleanerConnections ==
    /\ cpc = "connections"
    /\ connections' = CleanConnections(connections, cnow)
    /\ mutex' = "free"
    /\ cpc' = "lock_torrents"
    /\ UNCHANGED <<envVars, workerVars, issued, torrents, list_type, cnow,
                   access_list, sample>>

\* access_list.update_from_path: the file's list, or an Err that is logged
\* and leaves the list as it was
UpdateFromPath(list) == AccessListFiles \cup {list}

\* Allow | Deny: the access list is refreshed, then state.torrents.lock().
\* Only the cleaner reads the list, so the refresh is taken in the same step
\* as the acquisition that follows it.
CleanerLockTorrentsWithList ==
    /\ cpc = "lock_torrents"
    /\ list_type # "Ignore"
    /\ access_list' \in UpdateFromPath(access_list)
    /\ mutex = "free"
    /\ mutex' = "cleaner"
    /\ cpc' = "torrents"
    /\ UNCHANGED <<envVars, workerVars, connections, issued, torrents,
                   list_type, cnow, sample>>

\* Ignore: state.torrents.lock()
CleanerLockTorrents ==
    /\ cpc = "lock_torrents"
    /\ list_type = "Ignore"
    /\ mutex = "free"
    /\ mutex' = "cleaner"
    /\ cpc' = "torrents"
    /\ UNCHANGED <<envVars, workerVars, connections, issued, torrents,
                   list_type, cnow, access_list, sample>>

\* the retain passes, and the guard dropped at the end of the match arm;
\* `now` is dead once the pass is over
CleanerTorrents ==
    /\ cpc = "torrents"
    /\ torrents' = CleanTorrents(torrents, list_type, access_list, cnow)
    /\ mutex' = "free"
    /\ cpc' = "idle"
    /\ cnow' = 0
    /\ UNCHANGED <<envVars, workerVars, connections, issued, list_type,
                   access_list, sample>>

----------------------------------------------------------------------------

\* The worker and the cleaner with the access list ignored
\* (AccessListType::Ignore, tasks.rs:43-55).
IgnoreInit == Init /\ list_type = "Ignore"

Next ==
    \/ CloseChannel
    \/ Tick
    \/ RecvFirst
    \/ RecvFirstErr
    \/ RecvTimeoutOk
    \/ RecvTimeoutTryLock
    \/ RecvTimeoutContended
    \/ LockData
    \/ handle_connect_requests
    \/ handle_announce_requests
    \/ handle_scrape_requests
    \/ DropData
    \/ SendResponse
    \/ CleanerStart
    \/ CleanerLockConnections
    \/ CleanerConnections
    \/ CleanerLockTorrents
    \/ CleanerTorrents

Spec == IgnoreInit /\ [][Next]_vars

\* The access-list specification: the same worker and cleaner with an Allow
\* or a Deny list (tasks.rs:22-42).
AccessInit == Init /\ list_type # "Ignore"

AccessNext ==
    \/ CloseChannel
    \/ Tick
    \/ AccessRecvFirst
    \/ RecvFirstErr
    \/ AccessRecvTimeoutOk
    \/ RecvTimeoutTryLock
    \/ RecvTimeoutContended
    \/ LockData
    \/ handle_connect_requests
    \/ handle_announce_requests
    \/ handle_scrape_requests
    \/ DropData
    \/ SendResponse
    \/ CleanerStart
    \/ CleanerLockConnections
    \/ CleanerConnections
    \/ CleanerLockTorrentsWithList
    \/ CleanerTorrents

AccessSpec == AccessInit /\ [][AccessNext]_vars

\* The sampling specification: extract_response_peers applied once to a map
\* of n peers built as by gen_peer_map_key_and_value, for a target k and the
\* two draws of the rng.
TestPeerMap(n) ==
    [j \in 1..n |->
        [key |-> [ip |-> j - 1, peer_id |-> "p0"],
         value |-> [ip_address |-> j - 1, port |-> 1, status |-> "Leeching",
                    valid_until |-> 0]]]

ExtractInit == IgnoreInit

ExtractStart ==
    /\ sample.pc = "off"
    /\ \E n \in 0..MaxPeers, k \in 0..MaxWanted :
          sample' = [pc |-> "ready", n |-> n, k |-> k]
    /\ UNCHANGED <<envVars, workerVars, mutex, connections, issued, torrents,
                   list_type, cleanerVars>>

ExtractCall ==
    /\ sample.pc = "ready"
    /\ \E raw1 \in 0..MaxPeers, raw2 \in 0..MaxPeers :
          sample' = [pc |-> "done", n |-> sample.n, k |-> sample.k,
                     raw1 |-> raw1, raw2 |-> raw2,
                     panicked |-> SamplePanics(sample.n, sample.k),
                     positions |-> SamplePositions(sample.n, sample.k,
                                                   raw1, raw2),
                     peers |-> extract_response_peers(raw1, raw2,
                                   TestPeerMap(sample.n), sample.k)]
    /\ UNCHANGED <<envVars, workerVars, mutex, connections, issued, torrents,
                   list_type, cleanerVars>>

ExtractNext == ExtractStart \/ ExtractCall

ExtractSpec == ExtractInit /\ [][ExtractNext]_vars

\* The two-client specification: the same worker and cleaner, the access list
\* ignored, and the requests of SwarmRequests.
SwarmInit == IgnoreInit

SwarmNext ==
    \/ CloseChannel
    \/ Tick
    \/ SwarmRecvFirst
    \/ RecvFirstErr
    \/ SwarmRecvTimeoutOk
    \/ RecvTimeoutTryLock
    \/ RecvTimeoutContended
    \/ LockData
    \/ handle_connect_requests
    \/ handle_announce_requests
    \/ DropData
    \/ SendResponse
    \/ CleanerStart
    \/ CleanerLockConnections
    \/ CleanerConnections
    \/ CleanerLockTorrents
    \/ CleanerTorrents

SwarmSpec == SwarmInit /\ [][SwarmNext]_vars

\* The worker-only specification: run_request_worker with the requests of
\* SwarmRequests and no cleaner, so the mutex is never contended and the
\* peers stay until they announce Stopped.
HandlerInit == IgnoreInit

HandlerNext ==
    \/ CloseChannel
    \/ HandlerRecvFirst
    \/ RecvFirstErr
    \/ HandlerRecvTimeoutOk
    \/ RecvTimeoutTryLock
    \/ LockData
    \/ handle_connect_requests
    \/ handle_announce_requests
    \/ DropData
    \/ SendResponse

HandlerSpec == HandlerInit /\ [][HandlerNext]_vars

----------------------------------------------------------------------------
(* Properties *)

Range(f) == {f[x] : x \in DOMAIN f}

\* position in the order of receipt of the request with transaction id tid
BatchPos(tid) ==
    IF \E j \in 1..Len(batch) : batch[j].transaction_id = tid
    THEN CHOOSE j \in 1..Len(batch) : batch[j].transaction_id = tid
    ELSE 0

KindRank(kind) ==
    CASE kind = "Connect" -> 1 [] kind = "Announce" -> 2 [] OTHER -> 3

C2_InvalidKeyChangesNothing ==
    [][ /\ ( /\ pc = "announce"
             /\ announce_requests # <<>>
             /\ announce_requests' = Tail(announce_requests)
             /\ ConnectionKey(Head(announce_requests).connection_id,
                              Head(announce_requests).src)
                    \notin DOMAIN connections )
           => /\ responses' = Append(responses,
                     <<[kind |-> "Error",
                        transaction_id |-> Head(announce_requests).transaction_id,
                        message |-> "Connection invalid or expired"],
                       Head(announce_requests).src>>)
              /\ connections' = connections
              /\ torrents' = torrents
        /\ ( /\ pc = "scrape"
             /\ scrape_requests # <<>>
             /\ scrape_requests' = Tail(scrape_requests)
             /\ ConnectionKey(Head(scrape_requests).connection_id,
                              Head(scrape_requests).src)
                    \notin DOMAIN connections )
           => /\ responses' = Append(responses,
                     <<[kind |-> "Error",
                        transaction_id |-> Head(scrape_requests).transaction_id,
                        message |-> "Connection invalid or expired"],
                       Head(scrape_requests).src>>)
              /\ connections' = connections
              /\ torrents' = torrents
      ]_vars

\* an Announce was refused and no TorrentData exists
C2_Witness ==
    /\ torrents = EmptyMap
    /\ \E k \in 1..Len(responses), r \in Range(batch) :
          /\ r.kind = "Announce"
          /\ responses[k][1].transaction_id = r.transaction_id
          /\ responses[k][1].kind = "Error"

\* C3 (as claimed): once the blocking recv() has found the channel closed,
\* the worker neither acquires the mutex nor attempts another receive.
C3_StopsAfterClosed ==
    recv_err => (mutex # "worker" /\ pc # "recv")

\* C4 (as claimed): responses are produced in the order in which their
\* requests were received, whatever the kinds of the requests.
C4_Fifo ==
    \A j, k \in 1..Len(responses) :
        j < k => BatchPos(responses[j][1].transaction_id)
                    < BatchPos(responses[k][1].transaction_id)

\* C4 (amended): within a batch the responses are produced kind by kind
\* (Connect, Announce, Scrape) and in the order of receipt within a kind, and
\* nothing is received while a response of the previous batch is pending.
C4_FifoPerKind ==
    /\ \A j, k \in 1..Len(responses) :
          j < k =>
            LET pj == BatchPos(responses[j][1].transaction_id)
                pk == BatchPos(responses[k][1].transaction_id)
            IN /\ pj > 0 /\ pk > 0
               /\ KindRank(batch[pj].kind) <= KindRank(batch[pk].kind)
               /\ (batch[pj].kind = batch[pk].kind => pj < pk)
    /\ pc = "recv" => responses = <<>>

\* two requests of one kind were received in one batch and both answered
C4_Witness ==
    /\ Len(batch) = 2
    /\ batch[1].kind = batch[2].kind
    /\ Len(responses) = 2

\* C5: in a batch the Connects are handled before the Announces and the
\* Announces before the Scrapes, so an Announce that carries the id a Connect
\* of the same batch issued to the same source is not answered with an error.
C5_ConnectThenAnnounce ==
    /\ pc = "announce" => connect_requests = <<>>
    /\ pc = "scrape" => (connect_requests = <<>> /\ announce_requests = <<>>)
    /\ \A j, k \in 1..Len(responses) : \A r \in Range(batch) :
          ( /\ r.kind = "Announce"
            /\ responses[j][1].transaction_id = r.transaction_id
            /\ responses[k][1].kind = "Connect"
            /\ responses[k][2] = r.src
            /\ responses[k][1].connection_id = r.connection_id )
          => responses[j][1].kind = "Announce"

\* a Connect and an Announce with the id it issued, answered in one batch
C5_Witness ==
    \E j, k \in 1..Len(responses) : \E r \in Range(batch) :
        /\ r.kind = "Announce"
        /\ responses[j][1].transaction_id = r.transaction_id
        /\ responses[j][1].kind = "Announce"
        /\ responses[k][1].kind = "Connect"
        /\ responses[k][2] = r.src
        /\ responses[k][1].connection_id = r.connection_id
        /\ BatchPos(r.transaction_id) = 1
        /\ nsent = 2

\* C6 (as claimed): the peers of an AnnounceResponse all have the address
\* family of the requester.
C6_SameFamilyPeers ==
    \A k \in 1..Len(responses) :
        responses[k][1].kind = "Announce" =>
            \A p \in Range(responses[k][1].peers) :
                IsIpv4(p.ip_address) = IsIpv4(responses[k][2].ip)

\* C7: for a PeerMap of n peers and a target k the sampler draws from two
\* non-empty ranges and returns min(k, n) peers, taken from pairwise distinct
\* positions inside the map.
C7_SampleSize ==
    sample.pc = "done" =>
        /\ ~sample.panicked
        /\ Len(sample.peers) = Min(sample.k, sample.n)
        /\ Len(sample.positions) = Min(sample.k, sample.n)
        /\ \A j \in 1..Len(sample.positions) :
              /\ sample.positions[j] \in 0..(sample.n - 1)
              /\ sample.peers[j].ip_address = sample.positions[j]
        /\ \A j1, j2 \in 1..Len(sample.positions) :
              j1 # j2 => sample.positions[j1] # sample.positions[j2]

\* the map holds one peer more than wanted and the windows were drawn
C7_Witness ==
    /\ sample.pc = "done"
    /\ sample.n = sample.k + 1
    /\ sample.k >= 2
    /\ Len(sample.peers) = sample.k

\* C8: an Announce or Scrape from an address to which its ConnectionId was
\* never issued is answered with an ErrorResponse, whatever other addresses
\* the id was issued to; the table holds only keys a Connect issued.
C8_IdBoundToAddress ==
    /\ DOMAIN connections \subseteq issued
    /\ \A k \in 1..Len(responses) : \A r \in Range(batch) :
          ( /\ r.kind \in {"Announce", "Scrape"}
            /\ responses[k][1].transaction_id = r.transaction_id
            /\ [connection_id |-> r.connection_id, socket_addr |-> r.src]
                   \notin issued )
          => responses[k][1].kind = "Error"

\* a request refused although its id is in the table for another address
C8_Witness ==
    \E k \in 1..Len(responses) : \E r \in Range(batch) :
        /\ r.kind \in {"Announce", "Scrape"}
        /\ responses[k][1].transaction_id = r.transaction_id
        /\ responses[k][1].kind = "Error"
        /\ [connection_id |-> r.connection_id, socket_addr |-> r.src]
               \notin issued
        /\ \E key \in DOMAIN connections :
              /\ key.connection_id = r.connection_id
              /\ key.socket_addr # r.src

\* C9 (as claimed): the cleaner's pass over the ConnectionTable removes an
\* entry if and only if issued_at + connection_ttl <= now.
C9_EvictsPastTtlOnly ==
    [][ (cpc = "connections" /\ cpc' # "connections")
        => \A key \in DOMAIN connections :
              (key \in DOMAIN connections')
                 <=> (connections[key] + connection_ttl > cnow) ]_vars

\* C10 (as claimed): an Announce for an info_hash the access list does not
\* permit registers no peer and gets no AnnounceResponse.
C10_AnnounceFiltered ==
    [][ ( /\ pc = "announce"
          /\ announce_requests # <<>>
          /\ announce_requests' = Tail(announce_requests)
          /\ ~( CASE list_type = "Allow" ->
                       Head(announce_requests).info_hash \in access_list
                  [] list_type = "Deny" ->
                       Head(announce_requests).info_hash \notin access_list
                  [] OTHER -> TRUE ) )
        => /\ torrents' = torrents
           /\ responses'[Len(responses')][1].kind # "Announce" ]_vars

\* C11 (as claimed): a valid Announce (Started, bytes left, more peers wanted
\* than the cap allows) for an info_hash that has no TorrentData yet is
\* answered with AnnounceResponse{leechers = 1, seeders = 0, peers = []}.
C11_FirstAnnounceEmptyPeers ==
    [][ ( /\ pc = "announce"
          /\ announce_requests # <<>>
          /\ announce_requests' = Tail(announce_requests)
          /\ ConnectionKey(Head(announce_requests).connection_id,
                           Head(announce_requests).src) \in DOMAIN connections
          /\ Head(announce_requests).event = "Started"
          /\ Head(announce_requests).bytes_left > 0
          /\ Head(announce_requests).peers_wanted > 0
          /\ Head(announce_requests).info_hash \notin DOMAIN torrents )
        => LET response == responses'[Len(responses')][1]
           IN /\ response.kind = "Announce"
              /\ response.transaction_id
                    = Head(announce_requests).transaction_id
              /\ response.leechers = 1
              /\ response.seeders = 0
              /\ response.peers = <<>> ]_vars

\* C11 (amended): that Announce is answered with leechers = 1, seeders = 0
\* and a peer list that holds the announcing peer itself, and nothing else.
C11_FirstAnnounceReturnsSelf ==
    [][ ( /\ pc = "announce"
          /\ announce_requests # <<>>
          /\ announce_requests' = Tail(announce_requests)
          /\ ConnectionKey(Head(announce_requests).connection_id,
                           Head(announce_requests).src) \in DOMAIN connections
          /\ Head(announce_requests).event = "Started"
          /\ Head(announce_requests).bytes_left > 0
          /\ Head(announce_requests).peers_wanted > 0
          /\ Head(announce_requests).info_hash \notin DOMAIN torrents )
        => LET response == responses'[Len(responses')][1]
           IN /\ response.kind = "Announce"
              /\ response.transaction_id
                    = Head(announce_requests).transaction_id
              /\ response.leechers = 1
              /\ response.seeders = 0
              /\ response.peers
                    = <<[ip_address |-> Head(announce_requests).src.ip,
                         port |-> Head(announce_requests).port]>> ]_vars

\* the first Announce of a swarm was answered: one leecher, no seeder, and
\* the TorrentData holds the announcing peer alone
C11_Witness ==
    \E k \in 1..Len(responses) : \E r \in Range(batch) :
        /\ r.kind = "Announce" /\ r.event = "Started" /\ r.bytes_left > 0
        /\ r.peers_wanted > max_response_peers
        /\ responses[k][1].transaction_id = r.transaction_id
        /\ responses[k][1].kind = "Announce"
        /\ responses[k][1].leechers = 1
        /\ responses[k][1].seeders = 0
        /\ nsent = 2
        /\ r.info_hash \in DOMAIN torrents
        /\ Len(torrents[r.info_hash].peers) = 1

\* C12: a Scrape whose ConnectionKey is in the ConnectionTable is answered
\* with a ScrapeResponse that holds one record per requested info_hash, in
\* the order of the request: the current num_seeders and num_leechers of a
\* resident torrent, (0, 0) for an absent one, completed = 0 in every record;
\* the step changes neither the ConnectionTable nor the torrent map.
C12_ScrapeReportsCounters ==
    [][ ( /\ pc = "scrape"
          /\ scrape_requests # <<>>
          /\ scrape_requests' = Tail(scrape_requests)
          /\ ConnectionKey(Head(scrape_requests).connection_id,
                           Head(scrape_requests).src) \in DOMAIN connections )
        => LET request == Head(scrape_requests)
               response == responses'[Len(responses')][1]
           IN /\ Len(responses') = Len(responses) + 1
              /\ response.kind = "Scrape"
              /\ response.transaction_id = request.transaction_id
              /\ responses'[Len(responses')][2] = request.src
              /\ Len(response.torrent_stats) = Len(request.info_hashes)
              /\ \A j \in 1..Len(request.info_hashes) :
                    LET h == request.info_hashes[j]
                        record == response.torrent_stats[j]
                    IN /\ record.completed = 0
                       /\ h \in DOMAIN torrents
                            => /\ record.seeders = torrents[h].num_seeders
                               /\ record.leechers = torrents[h].num_leechers
                       /\ h \notin DOMAIN torrents
                            => /\ record.seeders = 0
                               /\ record.leechers = 0
              /\ torrents' = torrents
              /\ connections' = connections
              /\ issued' = issued ]_vars

\* a Scrape of a torrent with one peer and of an absent torrent was answered
C12_Witness ==
    \E k \in 1..Len(responses) :
        /\ responses[k][1].kind = "Scrape"
        /\ Len(responses[k][1].torrent_stats) = 2
        /\ responses[k][1].torrent_stats[1].seeders
              + responses[k][1].torrent_stats[1].leechers = 1
        /\ responses[k][1].torrent_stats[2]
              = [seeders |-> 0, completed |-> 0, leechers |-> 0]
        /\ "h1" \in DOMAIN torrents
        /\ Len(torrents["h1"].peers) = 1

\* C13: an AnnounceResponse holds at most min(max(peers_wanted, 0),
\* max_response_peers) peers: none when peers_wanted <= 0, however many peers
\* the swarm has, and never more than max_response_peers.
C13_PeersCapped ==
    \A k \in 1..Len(responses) : \A r \in Range(batch) :
        ( /\ responses[k][1].kind = "Announce"
          /\ responses[k][1].transaction_id = r.transaction_id )
        => /\ Len(responses[k][1].peers) <= max_response_peers
           /\ r.peers_wanted <= 0 => responses[k][1].peers = <<>>
           /\ r.peers_wanted > 0
                => Len(responses[k][1].peers) <= r.peers_wanted

\* a swarm of two peers answered one Announce that wanted more peers than
\* the cap with max_response_peers peers, and one that wanted none with none
C13_Witness ==
    /\ \E h \in DOMAIN torrents : Len(torrents[h].peers) > max_response_peers
    /\ Len(batch) = 2
    /\ \E j, k \in 1..Len(responses) : \E r, q \in Range(batch) :
          /\ responses[j][1].kind = "Announce"
          /\ responses[j][1].transaction_id = r.transaction_id
          /\ r.peers_wanted > max_response_peers
          /\ responses[j][1].leechers + responses[j][1].seeders
                > max_response_peers
          /\ Len(responses[j][1].peers) = max_response_peers
          /\ responses[k][1].kind = "Announce"
          /\ responses[k][1].transaction_id = q.transaction_id
          /\ q.peers_wanted <= 0
          /\ responses[k][1].leechers + responses[k][1].seeders
                > max_response_peers
          /\ responses[k][1].peers = <<>>

\* C14 (as claimed): right after the cleaner's pass over the torrents at time
\* now, a torrent is resident if and only if it was resident before, the
\* access list permits its info_hash and one of its peers is unexpired
\* (last_announce + peer_ttl > now); the PeerMap of a resident torrent holds
\* exactly its unexpired peers, and its counters went down by one for every
\* dropped Seeding and Leeching peer.
C14_CleanerKeepsUnexpired ==
    [][ (cpc = "torrents" /\ cpc' # "torrents")
        => LET Unexpired(e) == e.value.valid_until + peer_ttl > cnow
               Permitted(h) ==
                   CASE list_type = "Allow" -> h \in access_list
                     [] list_type = "Deny" -> h \notin access_list
                     [] OTHER -> TRUE
               Dropped(h, status) ==
                   Cardinality({j \in 1..Len(torrents[h].peers) :
                       /\ ~Unexpired(torrents[h].peers[j])
                       /\ torrents[h].peers[j].value.status = status})
           IN /\ DOMAIN torrents'
                    = {h \in DOMAIN torrents :
                          /\ Permitted(h)
                          /\ \E j \in 1..Len(torrents[h].peers) :
                                Unexpired(torrents[h].peers[j])}
              /\ \A h \in DOMAIN torrents' \cap DOMAIN torrents :
                    /\ torrents'[h].peers
                          = SelectSeq(torrents[h].peers, Unexpired)
                    /\ torrents'[h].num_seeders
                          = torrents[h].num_seeders - Dropped(h, "Seeding")
                    /\ torrents'[h].num_leechers
                          = torrents[h].num_leechers - Dropped(h, "Leeching")
      ]_vars

\* C15: every resident peer is Seeding or Leeching, and a valid Announce with
\* event = Stopped leaves the PeerMap of its torrent without the key
\* (source IP, PeerId) of the announcer, whether the key was there or not.
C15_NoStoppedPeerResident ==
    /\ [](\A h \in DOMAIN torrents : \A j \in 1..Len(torrents[h].peers) :
             torrents[h].peers[j].value.status \in {"Seeding", "Leeching"})
    /\ [][ ( /\ pc = "announce"
             /\ announce_requests # <<>>
             /\ announce_requests' = Tail(announce_requests)
             /\ ConnectionKey(Head(announce_requests).connection_id,
                              Head(announce_requests).src)
                    \in DOMAIN connections
             /\ Head(announce_requests).event = "Stopped" )
           => \A h \in DOMAIN torrents' :
                 h = Head(announce_requests).info_hash
                 => \A j \in 1..Len(torrents'[h].peers) :
                       torrents'[h].peers[j].key
                          # [ip |-> Head(announce_requests).src.ip,
                             peer_id |-> Head(announce_requests).peer_id]
       ]_vars

\* a peer announced Started and then Stopped in one batch: the second
\* response counts no peer and the PeerMap is empty
C15_Witness ==
    /\ Len(batch) = 2
    /\ batch[1].kind = "Announce" /\ batch[1].event = "Started"
    /\ batch[2].kind = "Announce" /\ batch[2].event = "Stopped"
    /\ batch[1].src = batch[2].src
    /\ Len(responses) = 2
    /\ responses[1][1].kind = "Announce"
    /\ responses[1][1].leechers = 1
    /\ responses[2][1].kind = "Announce"
    /\ responses[2][1].leechers = 0
    /\ responses[2][1].seeders = 0
    /\ batch[2].info_hash \in DOMAIN torrents
    /\ torrents[batch[2].info_hash].peers = <<>>

\* C16: the worker holds the mutex whenever a handler of its batch can run and
\* whenever it changes the ConnectionTable or the torrent map; it does not
\* hold it while it receives from the inbound channel or while a response
\* waits to be sent, so the first response of a batch is sent after the
\* release.
C16_LockAroundHandlersOnly ==
    /\ [](pc \in {"connect", "announce", "scrape", "drop"}
             <=> mutex = "worker")
    /\ [][ /\ ( /\ pc' # pc \/ responses' # responses
                /\ (connections' # connections \/ torrents' # torrents) )
              => (mutex = "worker" /\ mutex' = "worker")
           /\ (nsent' # nsent \/ Len(responses') < Len(responses))
              => (mutex # "worker" /\ mutex' # "worker")
       ]_vars

\* responses of a batch that changed the torrent map wait to be sent while
\* the cleaner holds the mutex
C16_Witness ==
    /\ pc = "send"
    /\ Len(responses) = 2
    /\ Len(batch) = 2
    /\ torrents # EmptyMap
    /\ mutex = "cleaner"

\* C17 (as claimed): a cleaner pass is one critical section: from the
\* eviction of connections to the eviction of torrents and peers the cleaner
\* holds the mutex, so no handler of the worker runs in between.
C17_CleanerPassIsAtomic ==
    cpc \in {"connections", "lock_torrents", "torrents"}
        => /\ mutex = "cleaner"
           /\ pc \notin {"connect", "announce", "scrape", "drop"}

\* C18 (as claimed): a TorrentData that comes into existence has a non-empty
\* PeerMap at that moment, so a valid Announce with event = Stopped for an
\* info_hash that has no TorrentData creates none.
C18_TorrentBornWithPeer ==
    [][ \A h \in DOMAIN torrents' :
           h \notin DOMAIN torrents => torrents'[h].peers # <<>> ]_vars

\* C19 (as claimed): for a PeerMap of n > k peers the window offsets the
\* sampler can draw are, relative to the start of each half, exactly
\* 0..(halflen - windowlen): the first half has length n div 2 and window
\* length k div 2, the second half length n - n div 2 and window length
\* k - k div 2.
C19_EveryOffsetDrawn ==
    (sample.pc = "done" /\ sample.n > sample.k) =>
        LET n == sample.n
            k == sample.k
            first == {gen_range(0, FirstHalfHigh(n, k), raw) :
                         raw \in 0..MaxPeers}
            second == {gen_range(SecondHalfLow(n), SecondHalfHigh(n, k), raw)
                          - (n \div 2) : raw \in 0..MaxPeers}
        IN /\ first = 0..((n \div 2) - (k \div 2))
           /\ second = 0..((n - (n \div 2)) - (k - (k \div 2)))

\* C20: in every batch each collected request is either still in the buffer
\* of its kind or answered by exactly one response, addressed to its source
\* and carrying its transaction id and a kind that fits (Connect ->
\* Connect; Announce -> Announce or Error; Scrape -> Scrape or Error); once
\* the handlers are done there is one response per collected request, and
\* when the next batch starts the request and response buffers are empty.
C20_OneResponsePerRequest ==
    LET pending == connect_requests \o announce_requests \o scrape_requests
        Fits(request, response) ==
            /\ response[2] = request.src
            /\ response[1].transaction_id = request.transaction_id
            /\ response[1].kind
                  \in (IF request.kind = "Connect" THEN {"Connect"}
                       ELSE {request.kind, "Error"})
        Answers(request) ==
            {k \in 1..Len(responses) :
                responses[k][1].transaction_id = request.transaction_id}
    IN /\ \A k \in 1..Len(responses) :
             \E j \in 1..Len(batch) : Fits(batch[j], responses[k])
       /\ \A j \in 1..Len(batch) : Cardinality(Answers(batch[j])) <= 1
       /\ pc \in {"recv", "lock", "connect", "announce", "scrape", "drop"}
             => /\ Len(pending) + Len(responses) = Len(batch)
                /\ \A j \in 1..Len(batch) :
                      (batch[j] \in Range(pending))
                         <=> Answers(batch[j]) = {}
       /\ pc = "drop" => pending = <<>>
       /\ pc = "send" => pending = <<>> /\ responses # <<>>
       /\ (pc = "recv" /\ i = 0) => (batch = <<>> /\ responses = <<>>)

\* the handlers of a batch of two requests are done: an Announce was refused
\* and a Scrape of the same batch answered
C20_Witness ==
    /\ pc = "drop"
    /\ Len(batch) = 2
    /\ Len(responses) = 2
    /\ \E j, k \in 1..2 :
          /\ responses[j][1].kind = "Error"
          /\ responses[k][1].kind = "Scrape"
    /\ nsent = 3

====
